---------------------------- MODULE Spec2Model ----------------------------
(***************************************************************************)
(* Model of the sberdemo dialogue bot: the per-user turn chain and paced   *)
(* reply delivery of router.py (main, start, send_delayed, user_client),   *)
(* the route normaliser format_route, and from nlu.py the memoised         *)
(* Pipeline.feed, DictionarySlot.infer and read_slots_from_tsv.            *)
(***************************************************************************)
EXTENDS Integers, Sequences, FiniteSets, TLC

(***************************************************************************)
(* Bounds of the router model.                                             *)
(***************************************************************************)
MaxTurns == 2
MaxReplies == 3
MaxWorkers == 2
MaxStarts == 1
MaxRejects == 1

Chats == {1, 2}

VARIABLES
    humans,      \* router.py:103  chat id -> dialog id (0: no entry)
    dialogs,     \* number of Dialog objects built so far by new_dialog
    turns,       \* one record per message accepted by user_client
    execQueue,   \* work queue of the ThreadPoolExecutor (router.py:101)
    sent,        \* per chat, the bot.send_message calls of send_delayed
    starts       \* number of /start commands handled

routerVars == <<humans, dialogs, turns, execQueue, sent, starts>>

Turns == 1..Len(turns)

(***************************************************************************)
(* The promise chain.  dialog.promise is the promise of the last turn      *)
(* chained on the dialog; a fresh Dialog holds a resolved promise.         *)
(***************************************************************************)
TurnsOf(ts, d) == {t \in 1..Len(ts) : ts[t].dialog = d}

LastTurn(ts, d) ==
    IF TurnsOf(ts, d) = {} THEN 0
    ELSE CHOOSE t \in TurnsOf(ts, d) : \A u \in TurnsOf(ts, d) : u <= t

InitialPromise == "fulfilled"

PromiseOfTurn(r) ==
    CASE r.st \in {"chained", "queued", "running"} -> "pending"
      [] r.st = "resolved" -> "fulfilled"
      [] r.st = "rejected" -> "rejected"

DialogPromise(ts, d) ==
    IF LastTurn(ts, d) = 0 THEN InitialPromise
    ELSE PromiseOfTurn(ts[LastTurn(ts, d)])

\* Two faulty chains: one that submits at once whatever the promise, one
\* that waits for the turns of every user.
ThenEager(p) == "queued"

ThenAnyPending(p) ==
    IF \E t \in Turns : turns[t].st \in {"chained", "queued", "running"}
    THEN "chained" ELSE "queued"

\* promise.then(on_fulfilled) on a promise in state p: the handler runs at
\* once on a fulfilled promise, later on a pending one, never on a rejected
\* one (no rejection handler is given, the rejection is passed on).
Then(p) ==
    CASE p = "fulfilled" -> "queued"
      [] p = "pending" -> "chained"
      [] p = "rejected" -> "rejected"

Busy == Cardinality({t \in Turns : turns[t].st = "running"})

\* The promise of turn t settles: on fulfilment the handler of the next turn
\* chained on the same dialog runs (executor.submit); a rejection is passed
\* down the whole chain.
Successors(t) == {u \in Turns : u > t /\ turns[u].dialog = turns[t].dialog}

Settle(ts, t, how) ==
    [u \in 1..Len(ts) |->
        IF u = t THEN [ts[u] EXCEPT !.st = how]
        ELSE IF u \in Successors(t) /\ ts[u].st = "chained"
             THEN IF how = "rejected" THEN [ts[u] EXCEPT !.st = "rejected"]
                  ELSE IF \A v \in Successors(t) : u <= v
                       THEN [ts[u] EXCEPT !.st = "queued"]
                       ELSE ts[u]
             ELSE ts[u]]

Submitted(t, how) ==
    IF how = "resolved" /\ Successors(t) # {}
    THEN <<CHOOSE u \in Successors(t) : \A v \in Successors(t) : u <= v>>
    ELSE <<>>

(***************************************************************************)
(* bot.send_message as seen by the transport.  out is what the transport   *)
(* does with the reply and with the error notice sent in its place:        *)
(*   "ok"      the reply is accepted;                                      *)
(*   "notice"  the reply is rejected, the notice is accepted;              *)
(*   "fail"    both are rejected, the second exception leaves send_delayed.*)
(***************************************************************************)
SendOutcomes == {"ok", "notice", "fail"}

Msg(k, t, i, ok) == [kind |-> k, turn |-> t, idx |-> i, ok |-> ok]

SendCalls(t, i, out) ==
    CASE out = "ok" -> <<Msg("reply", t, i, TRUE)>>
      [] out = "notice" -> <<Msg("reply", t, i, FALSE), Msg("notice", t, i, TRUE)>>
      [] out = "fail" -> <<Msg("reply", t, i, FALSE), Msg("notice", t, i, FALSE)>>

\* Number of replies the transport has rejected so far.
RECURSIVE CountRejected(_)
CountRejected(log) ==
    IF log = <<>> THEN 0
    ELSE (IF Head(log).kind = "reply" /\ ~Head(log).ok THEN 1 ELSE 0)
         + CountRejected(Tail(log))

Rejected == CountRejected(sent[1]) + CountRejected(sent[2])

MayReject(out) == out = "ok" \/ Rejected < MaxRejects

\* Number of replies generate_response has returned so far, over all turns.
RECURSIVE CountReplies(_)
CountReplies(ts) ==
    IF ts = <<>> THEN 0 ELSE Head(ts).n + CountReplies(Tail(ts))

\* if messages: threading.Timer(...).start()
Rearm(popped, n) == popped < n

RouterInit ==
    /\ humans = [c \in Chats |-> 0]
    /\ dialogs = 0
    /\ turns = <<>>
    /\ execQueue = <<>>
    /\ sent = [c \in Chats |-> <<>>]
    /\ starts = 0

\* start: /start builds a new Dialog for the chat and sends the greeting
\* (sent records the calls made by send_delayed only).  When new_dialog
\* raises, the error is logged and humans is left alone: built = FALSE.
Start(c, built) ==
    /\ starts < MaxStarts
    /\ starts' = starts + 1
    /\ IF built
       THEN /\ dialogs' = dialogs + 1
            /\ humans' = [humans EXCEPT ![c] = dialogs + 1]
       ELSE UNCHANGED <<humans, dialogs>>
    /\ UNCHANGED <<turns, execQueue, sent>>

\* (UserClientAlwaysNew: a Dialog is built for every message.)
UserClientAlwaysNew(c) ==
    /\ Len(turns) < MaxTurns
    /\ LET d == dialogs + 1
           st == Then(DialogPromise(turns, d))
           t == Len(turns) + 1
       IN /\ humans' = [humans EXCEPT ![c] = d]
          /\ dialogs' = dialogs + 1
          /\ turns' = Append(turns, [chat |-> c, dialog |-> d, st |-> st,
                                     gen |-> "none", n |-> 0, popped |-> 0,
                                     timer |-> FALSE])
          /\ execQueue' = IF st = "queued" THEN Append(execQueue, t)
                          ELSE execQueue
    /\ UNCHANGED <<sent, starts>>

\* user_client: look the dialog up (building it on the first message) and
\* chain generate_response and send_delayed on dialog.promise.  When
\* new_dialog raises, the handler ends before it changes anything.
UserClient(c) ==
    /\ Len(turns) < MaxTurns
    /\ LET fresh == humans[c] = 0
           d == IF fresh THEN dialogs + 1 ELSE humans[c]
           st == Then(DialogPromise(turns, d))
           t == Len(turns) + 1
       IN /\ humans' = [humans EXCEPT ![c] = d]
          /\ dialogs' = IF fresh THEN dialogs + 1 ELSE dialogs
          /\ turns' = Append(turns, [chat |-> c, dialog |-> d, st |-> st,
                                     gen |-> "none", n |-> 0, popped |-> 0,
                                     timer |-> FALSE])
          /\ execQueue' = IF st = "queued" THEN Append(execQueue, t)
                          ELSE execQueue
    /\ UNCHANGED <<sent, starts>>

\* A worker of the pool takes the oldest work item and calls
\* dialog.generate_response.
WorkerStart ==
    /\ execQueue # <<>>
    /\ Busy < MaxWorkers
    /\ turns' = [turns EXCEPT ![Head(execQueue)].st = "running"]
    /\ execQueue' = Tail(execQueue)
    /\ UNCHANGED <<humans, dialogs, sent, starts>>

\* generate_response raises: the future fails, the turn's promise is rejected
\* and send_delayed is not called.
GenerateRaises(t) ==
    /\ turns[t].st = "running"
    /\ turns' = Settle([turns EXCEPT ![t].gen = "raised"], t, "rejected")
    /\ UNCHANGED <<humans, dialogs, execQueue, sent, starts>>

\* generate_response returns n replies; the worker then runs the first call
\* of send_delayed: messages.pop(0) raises on an empty list, otherwise one
\* reply goes to the transport and the timer is armed for the rest.
GenerateReturns(t, n, out) ==
    /\ turns[t].st = "running"
    /\ IF n = 0
       THEN /\ out = "ok"
            /\ turns' = Settle([turns EXCEPT ![t].gen = "ok"], t, "rejected")
            /\ UNCHANGED <<execQueue, sent>>
       ELSE /\ MayReject(out)
            /\ LET how == IF out = "fail" THEN "rejected" ELSE "resolved"
                   r == [turns[t] EXCEPT !.gen = "ok", !.n = n, !.popped = 1,
                                      !.timer = (out # "fail" /\ Rearm(1, n))]
               IN /\ turns' = Settle([turns EXCEPT ![t] = r], t, how)
                  /\ execQueue' = execQueue \o Submitted(t, how)
                  /\ sent' = [sent EXCEPT ![turns[t].chat] =
                                             @ \o SendCalls(t, 1, out)]
    /\ UNCHANGED <<humans, dialogs, starts>>

\* The timer armed by send_delayed fires: send_delayed runs on the rest of
\* the list.
TimerFires(t, out) ==
    /\ turns[t].timer
    /\ MayReject(out)
    /\ LET i == turns[t].popped + 1
       IN /\ turns' = [turns EXCEPT ![t].popped = i,
                          ![t].timer = (out # "fail" /\ Rearm(i, turns[t].n))]
          /\ sent' = [sent EXCEPT ![turns[t].chat] = @ \o SendCalls(t, i, out)]
    /\ UNCHANGED <<humans, dialogs, execQueue, starts>>

RouterNext ==
    \/ \E c \in Chats, built \in BOOLEAN : Start(c, built)
    \/ \E c \in Chats : UserClient(c)
    \/ WorkerStart
    \/ \E t \in Turns : GenerateRaises(t)
    \/ \E t \in Turns, n \in 0..(MaxReplies - CountReplies(turns)), out \in SendOutcomes :
          GenerateReturns(t, n, out)
    \/ \E t \in Turns, out \in SendOutcomes : TimerFires(t, out)

(***************************************************************************)
(* Claims about the turn chain and the delivery of replies.                *)
(***************************************************************************)
SameDialog(u, t) == turns[u].dialog = turns[t].dialog

Started(t) == turns[t].st = "running" \/ turns[t].gen # "none"

\* The indexes of the replies of turn t handed to the transport, in the
\* order of the calls.
ReplyIdx(t) ==
    LET log == SelectSeq(sent[turns[t].chat],
                         LAMBDA m : m.kind = "reply" /\ m.turn = t)
    IN [k \in 1..Len(log) |-> log[k].idx]

\* C1: a turn's generate_response starts only after generate_response of
\* every earlier turn chained on the same Dialog has completed, so two turns
\* of one session are never in the worker pool together.
C1_TurnsSerialized ==
    \A u \in Turns, t \in Turns :
        (u < t /\ SameDialog(u, t) /\ Started(t)) => turns[u].gen # "none"

\* A slow turn is still running while the next message of the same user is
\* already chained behind it.
C1_Witness ==
    \E u \in Turns, t \in Turns :
        /\ u < t /\ SameDialog(u, t)
        /\ turns[u].st = "running" /\ turns[t].st = "chained"

\* C2: for one user, every reply of turn n is handed to the transport before
\* any reply of turn n+1.
C2_RepliesOrderedByTurn ==
    \A c \in Chats : \A i \in DOMAIN sent[c], j \in DOMAIN sent[c] :
        (i < j /\ SameDialog(sent[c][i].turn, sent[c][j].turn))
            => sent[c][i].turn <= sent[c][j].turn

\* C3: when generate_response of a turn raises, no later message of the same
\* user is dropped unprocessed: the failure is fatal to that turn only.
C3_FailureIsLocal ==
    \A u \in Turns, t \in Turns :
        (u < t /\ SameDialog(u, t) /\ turns[u].gen = "raised")
            => ~(turns[t].st = "rejected" /\ turns[t].gen = "none")

\* C4: of a non-empty reply list, send_delayed hands the replies to the
\* transport once each and in list order, and the timer is armed exactly
\* while replies are left, so that every reply is handed over.
C4_EveryReplyOnce ==
    \A t \in Turns :
        (turns[t].gen = "ok" /\ turns[t].n > 0)
            => /\ ReplyIdx(t) = [k \in 1..turns[t].popped |-> k]
               /\ turns[t].timer <=> (turns[t].popped < turns[t].n)

\* C5: turns of different users are not ordered: a turn waits in the chain
\* only behind an unsettled earlier turn of its own Dialog, and a submitted
\* turn waits only for a free worker of the pool.
C5_UsersIndependent ==
    /\ \A t \in Turns :
          turns[t].st = "chained"
              => \E u \in Turns :
                    /\ u < t /\ SameDialog(u, t)
                    /\ turns[u].st \in {"chained", "queued", "running"}
    /\ \A t \in Turns :
          turns[t].st = "queued"
              => \E k \in DOMAIN execQueue : execQueue[k] = t
    /\ (execQueue # <<>> /\ Busy < MaxWorkers) => ENABLED WorkerStart

\* The turn of user X that came first is still being processed when the
\* later turn of user Y has completed and been answered.
C5_Witness ==
    \E u \in Turns, t \in Turns :
        /\ u < t /\ turns[u].chat # turns[t].chat
        /\ turns[u].st = "running" /\ turns[t].st = "resolved"


\* C14: a turn whose reply list is empty sends nothing and leaves the chain
\* usable: no later message of the same user is dropped unprocessed.
C14_EmptyListKeepsChain ==
    \A u \in Turns, t \in Turns :
        (u < t /\ SameDialog(u, t) /\ turns[u].gen = "ok" /\ turns[u].n = 0)
            => /\ ~(turns[t].st = "rejected" /\ turns[t].gen = "none")
               /\ ReplyIdx(u) = <<>>

\* C15: a reply the transport rejects is followed by the error notice sent
\* in its place, and the delivery of the rest of the list goes on: while
\* replies are left after it the timer is armed.
C15_RejectedSendGoesOn ==
    \A c \in Chats : \A i \in DOMAIN sent[c] :
        LET m == sent[c][i]
        IN (m.kind = "reply" /\ ~m.ok)
              => /\ i < Len(sent[c])
                 /\ sent[c][i + 1].kind = "notice"
                 /\ sent[c][i + 1].turn = m.turn /\ sent[c][i + 1].idx = m.idx
                 /\ m.idx < turns[m.turn].n
                       => turns[m.turn].timer \/ turns[m.turn].popped > m.idx

\* C16: across a /start, a turn of the new session of a chat is never
\* processed together with a turn of the replaced one, and no reply of the
\* old turn is sent after a reply of the new session.
C16_SerializedAcrossReset ==
    \A u \in Turns, t \in Turns :
        (u < t /\ turns[u].chat = turns[t].chat /\ ~SameDialog(u, t))
            => /\ ~(turns[u].st = "running" /\ turns[t].st = "running")
               /\ \A i \in DOMAIN sent[turns[u].chat],
                     j \in DOMAIN sent[turns[u].chat] :
                     ~(i < j /\ sent[turns[u].chat][i].turn = t
                             /\ sent[turns[u].chat][j].turn = u
                             /\ sent[turns[u].chat][i].kind = "reply"
                             /\ sent[turns[u].chat][j].kind = "reply")

(***************************************************************************)
(* nlu.py: Pipeline.feed under functools.lru_cache.                        *)
(*                                                                         *)
(* A text is a sequence of characters over Alphabet; TextOf numbers the    *)
(* texts.  The collaborators (nltk's tokenizers, pymorphy2) are modelled   *)
(* by what they do on this alphabet: a sentence ends after a run of "!",   *)
(* words are separated by blanks and "!" is a word of its own.             *)
(***************************************************************************)
NumTexts == 130
LruMaxSize == 128

VARIABLES
    cache,       \* the lru_cache of feed: entries oldest first
    runs,        \* text number -> executions of the body of feed
    returned,    \* text number -> <<result>> of the first call, or <<>>
    ret,         \* <<text number, result>> of the latest call, or <<>>
    fed          \* number of distinct texts fed so far

feedVars == <<cache, runs, returned, ret, fed>>

Alphabet == <<"a", "A", "!", " ">>

RECURSIVE TextOf(_)
TextOf(i) ==
    IF i = 0 THEN <<>>
    ELSE Append(TextOf((i - 1) \div Len(Alphabet)),
                Alphabet[((i - 1) % Len(Alphabet)) + 1])

RECURSIVE Trim(_)
Trim(s) ==
    IF s = <<>> THEN s
    ELSE IF Head(s) = " " THEN Trim(Tail(s))
    ELSE IF s[Len(s)] = " " THEN Trim(SubSeq(s, 1, Len(s) - 1))
    ELSE s

NonEmpty(s) == IF s = <<>> THEN <<>> ELSE <<s>>

RECURSIVE Sents(_, _)
Sents(rest, cur) ==
    IF rest = <<>> THEN NonEmpty(Trim(cur))
    ELSE IF Head(rest) = "!" /\ (Len(rest) = 1 \/ rest[2] # "!")
         THEN <<Trim(Append(cur, "!"))>> \o Sents(Tail(rest), <<>>)
         ELSE Sents(Tail(rest), Append(cur, Head(rest)))

sent_tokenizer(text) == Sents(text, <<>>)

RECURSIVE Words(_, _)
Words(rest, cur) ==
    IF rest = <<>> THEN NonEmpty(cur)
    ELSE IF Head(rest) = " " THEN NonEmpty(cur) \o Words(Tail(rest), <<>>)
    ELSE IF Head(rest) = "!"
         THEN NonEmpty(cur) \o <<<<"!">>>> \o Words(Tail(rest), <<>>)
         ELSE Words(Tail(rest), Append(cur, Head(rest)))

word_tokenizer(s) == Words(s, <<>>)

LowerCase(w) == [k \in 1..Len(w) |-> IF w[k] = "A" THEN "a" ELSE w[k]]

\* morph.parse(w)[0]: the normal form and the tags of the top-ranked parse.
MorphParse(w) ==
    [normal |-> LowerCase(w),
     tags |-> IF w = <<"!">> THEN {"PNCT"} ELSE {"NOUN"}]

\* PyMorphyPreproc.process: every word gets its normal form, its tags and
\* one more vector, in the order given.
PyMorphyPreproc(ws) ==
    [k \in 1..Len(ws) |->
        [ws[k] EXCEPT !.normal = MorphParse(ws[k].text).normal,
                      !.tags = MorphParse(ws[k].text).tags,
                      !.vec = Append(@, MorphParse(ws[k].text).tags)]]

\* Lower.process
Lower(ws) == [k \in 1..Len(ws) |-> [ws[k] EXCEPT !.text = LowerCase(@)]]

\* for fg in self.feature_gens: ws = fg.process(ws)
FeatureGens(ws) == Lower(PyMorphyPreproc(ws))

NewWords(s) ==
    LET raw == word_tokenizer(s)
    IN [k \in 1..Len(raw) |->
           [text |-> raw[k], normal |-> <<>>, tags |-> {}, vec |-> <<>>]]

\* words.extend(ws) for every sentence
\* (ExtendAllInFront: the words of a sentence put before the earlier ones).
RECURSIVE ExtendAllInFront(_)
ExtendAllInFront(ss) ==
    IF ss = <<>> THEN <<>>
    ELSE ExtendAllInFront(Tail(ss)) \o FeatureGens(NewWords(Head(ss)))

RECURSIVE ExtendAll(_)
ExtendAll(ss) ==
    IF ss = <<>> THEN <<>>
    ELSE FeatureGens(NewWords(Head(ss))) \o ExtendAll(Tail(ss))

\* self.embedder([w['_vec'] for w in words]): the vectors stacked in order.
Embedder(vecs) == vecs

\* The body of feed.
FeedBody(text) ==
    LET words == ExtendAll(sent_tokenizer(text))
    IN [emb |-> Embedder([k \in 1..Len(words) |-> words[k].vec]),
        words |-> words]

\* The cache of lru_cache: the key is the text, a hit moves the entry to the
\* most recent end, a miss on a full cache drops the oldest entry.
Position(key) ==
    IF \E k \in DOMAIN cache : cache[k].key = key
    THEN CHOOSE k \in DOMAIN cache : cache[k].key = key
    ELSE 0

Without(k) == [j \in 1..(Len(cache) - 1) |-> IF j < k THEN cache[j] ELSE cache[j + 1]]

\* The value a hit on entry k returns (HitAfterMove: read only after the
\* entry has been moved to the most recent end).
HitAfterMove(k) == Append(Without(k), cache[k])[k].value

Hit(k) == cache[k].value

Evicted == IF Len(cache) >= LruMaxSize THEN Tail(cache) ELSE cache

FeedInit ==
    /\ cache = <<>>
    /\ runs = [i \in 0..(NumTexts - 1) |-> 0]
    /\ returned = [i \in 0..(NumTexts - 1) |-> <<>>]
    /\ ret = <<>>
    /\ fed = 0

\* pipe.feed(TextOf(i))
Feed(i) ==
    LET k == Position(i)
        value == IF k > 0 THEN Hit(k) ELSE FeedBody(TextOf(i))
    IN /\ IF k > 0
          THEN /\ cache' = Append(Without(k), cache[k])
               /\ UNCHANGED runs
          ELSE /\ cache' = Append(Evicted, [key |-> i, value |-> value])
               /\ runs' = [runs EXCEPT ![i] = @ + 1]
       /\ ret' = <<i, value>>
       /\ returned' = IF returned[i] = <<>>
                      THEN [returned EXCEPT ![i] = <<value>>]
                      ELSE returned
       /\ fed' = IF i = fed THEN fed + 1 ELSE fed

\* The callers feed a text never seen before, the very first text again, or
\* the text of the previous new call again.
FeedNext ==
    \/ fed < NumTexts /\ Feed(fed)
    \/ fed > 0 /\ Feed(0)
    \/ fed > 1 /\ Feed(fed - 1)

\* C6: feed is memoised on the text for the life of the process: the body of
\* feed runs at most once for a text, whatever is fed in between.
C6_ComputedOnce == \A i \in DOMAIN runs : runs[i] <= 1

RECURSIVE TokenizedWords(_)
TokenizedWords(ss) ==
    IF ss = <<>> THEN <<>>
    ELSE word_tokenizer(Head(ss)) \o TokenizedWords(Tail(ss))

\* C12: feed returns one flat sequence with one token per word of the word
\* tokenizer, in sentence order and then word order; the stages have run on
\* each token in declared order (normal form and one vector from the
\* tagger, then the text lowered) and the embedding stacks one entry per
\* token.
C12_TokensInOrder ==
    ret # <<>> =>
        LET raw == TokenizedWords(sent_tokenizer(TextOf(ret[1])))
            words == ret[2].words
        IN /\ Len(words) = Len(raw)
           /\ \A k \in DOMAIN raw :
                 /\ words[k].text = LowerCase(raw[k])
                 /\ words[k].normal = MorphParse(raw[k]).normal
                 /\ words[k].vec = <<MorphParse(raw[k]).tags>>
           /\ ret[2].emb = [k \in DOMAIN raw |-> <<MorphParse(raw[k]).tags>>]

\* feed has returned the three tokens of a text of two sentences.
C12_Witness ==
    /\ ret # <<>>
    /\ Len(sent_tokenizer(TextOf(ret[1]))) = 2
    /\ Len(ret[2].words) = 3

(***************************************************************************)
(* router.py: format_route.  A JSON value is a tagged record: a string, a  *)
(* list of values, an object (a function from its keys to values) or None. *)
(***************************************************************************)
MaxRouteLen == 2
MaxNestLen == 2

VARIABLES
    rawRoute,    \* the route as json.load returned it
    route,       \* the same list, normalised in place by format_route
    routePc      \* "raw" before the call of format_route, "formatted" after
                 \* it, "again" after a second call on the same list

routeVars == <<rawRoute, route, routePc>>

Str(x) == [tag |-> "str", str |-> x]
List(xs) == [tag |-> "list", items |-> xs]
Dict(f) == [tag |-> "dict", map |-> f]
None == [tag |-> "none"]

Keys(x) == DOMAIN x.map

\* {slot: None for slot in relevant_slots}: the comprehension iterates the
\* items of a list and the keys of a dict.
SlotsAsMap(v) ==
    IF v.tag = "dict"
    THEN Dict([k \in Keys(v) |-> None])
    ELSE Dict([k \in {v.items[j].str : j \in DOMAIN v.items} |-> None])

\* {"slot": ..., "condition": ...}
\* (AskSwapped: the two values exchanged.)
AskSwapped(slot, condition) ==
    Dict("slot" :> condition @@ "condition" :> slot)

Ask(slot, condition) == Dict("slot" :> slot @@ "condition" :> condition)

RECURSIVE format_route(_)

\* (FormatStepAnySize: an object without "action" becomes an ask step
\* whatever its number of keys.)
FormatStepAnySize(x) ==
    CASE x.tag = "list" -> List(format_route(x.items))
      [] x.tag = "str" -> Ask(x, Str("any"))
      [] x.tag = "dict" ->
            IF "action" \in Keys(x)
            THEN IF "relevant_slots" \in Keys(x)
                 THEN Dict([x.map EXCEPT !["relevant_slots"] = SlotsAsMap(@)])
                 ELSE x
            ELSE LET key == CHOOSE k \in Keys(x) : TRUE
                 IN Ask(x.map[key], Str(key))
      [] OTHER -> x

\* The body of the loop of format_route for route[i] = x.
FormatStep(x) ==
    CASE x.tag = "list" -> List(format_route(x.items))
      [] x.tag = "str" -> Ask(x, Str("any"))
      [] x.tag = "dict" ->
            IF "action" \in Keys(x)
            THEN IF "relevant_slots" \in Keys(x)
                 THEN Dict([x.map EXCEPT !["relevant_slots"] = SlotsAsMap(@)])
                 ELSE x
            ELSE IF Cardinality(Keys(x)) = 1
                 THEN LET key == CHOOSE k \in Keys(x) : TRUE
                      IN Ask(x.map[key], Str(key))
                 ELSE x
      [] OTHER -> x

format_route(r) == [i \in 1..Len(r) |-> FormatStep(r[i])]

\* The raw routes: flat steps of every kind, lists of steps nested once and
\* twice, in routes of up to MaxRouteLen steps.
SeqsUpTo(S, n) == UNION {[1..k -> S] : k \in 0..n}

CoreSteps ==
    { Str("a"),
      Dict("c" :> Str("b")),
      Dict("action" :> Str("x") @@
           "relevant_slots" :> List(<<Str("a"), Str("b")>>)) }

FlatSteps ==
    CoreSteps \cup
    { Str("b"),
      Dict("any" :> Str("a")),
      Dict("action" :> Str("x")),
      Dict("action" :> Str("x") @@ "relevant_slots" :> List(<<>>)),
      Dict("action" :> Str("x") @@ "relevant_slots" :> List(<<Str("c")>>)),
      Dict("action" :> Str("x") @@
           "relevant_slots" :> List(<<Str("a"), Str("a")>>)),
      Dict("c" :> Str("a") @@ "d" :> Str("b")) }

NestedOnce == {List(xs) : xs \in SeqsUpTo(CoreSteps, MaxNestLen)}

NestedTwice == {List(<<List(<<x>>)>>) : x \in CoreSteps}

RawSteps == FlatSteps \cup NestedOnce \cup NestedTwice

RawRoutes == SeqsUpTo(RawSteps, MaxRouteLen)

RouteInit ==
    /\ rawRoute \in RawRoutes
    /\ route = rawRoute
    /\ routePc = "raw"

\* parse_route: format_route(route) for the route of an intent.
ParseRoute ==
    /\ routePc = "raw"
    /\ route' = format_route(route)
    /\ routePc' = "formatted"
    /\ UNCHANGED rawRoute

\* format_route(route) called once more on the list it has normalised.
FormatRouteAgain ==
    /\ routePc = "formatted"
    /\ route' = format_route(route)
    /\ routePc' = "again"
    /\ UNCHANGED rawRoute

RouteNext == ParseRoute \/ FormatRouteAgain

(***************************************************************************)
(* C8, stated on the raw and the normalised route.                         *)
(***************************************************************************)
RECURSIVE NormalOf(_, _)

\* y is the normal form the rules give for the raw step x.
StepNormalOf(x, y) ==
    CASE x.tag = "str" ->
            y = Dict("slot" :> x @@ "condition" :> Str("any"))
      [] x.tag = "list" -> y.tag = "list" /\ NormalOf(x.items, y.items)
      [] x.tag = "dict" /\ "action" \in Keys(x) ->
            /\ y.tag = "dict" /\ Keys(y) = Keys(x)
            /\ \A k \in Keys(x) \ {"relevant_slots"} : y.map[k] = x.map[k]
            /\ "relevant_slots" \in Keys(x) =>
                  LET listed == x.map["relevant_slots"].items
                      m == y.map["relevant_slots"]
                  IN /\ m.tag = "dict"
                     /\ Keys(m) = {listed[j].str : j \in DOMAIN listed}
                     /\ \A k \in Keys(m) : m.map[k] = None
      [] x.tag = "dict" /\ "action" \notin Keys(x) /\ Cardinality(Keys(x)) = 1 ->
            \E c \in Keys(x) :
                y = Dict("slot" :> x.map[c] @@ "condition" :> Str(c))
      [] OTHER -> TRUE

NormalOf(xs, ys) ==
    /\ Len(ys) = Len(xs)
    /\ \A i \in DOMAIN xs : StepNormalOf(xs[i], ys[i])

\* C8: format_route keeps length and order at every depth and turns a bare
\* string into an ask step with condition any, a single-key object into an
\* ask step with that key as condition, the relevant_slots list of an action
\* step into a map of unfilled slots, and a nested list into its normal form.
C8_RouteNormalized == routePc = "formatted" => NormalOf(rawRoute, route)

\* A route holding a bare string and a nested list with a condition object
\* and an action with relevant slots has been normalised.
C8_Witness ==
    /\ routePc = "formatted"
    /\ rawRoute = << Str("a"),
                     List(<< Dict("c" :> Str("b")),
                             Dict("action" :> Str("x") @@
                                  "relevant_slots" :>
                                      List(<<Str("a"), Str("b")>>)) >>) >>

(***************************************************************************)
(* nlu.py: DictionarySlot.infer.                                           *)
(***************************************************************************)
MaxTokens == 2

VARIABLES
    slotDict,    \* Slot.dict: surface form -> canonical value
    sentence,    \* the tokens given to infer, each with its normal form
    inferred     \* <<value>> once infer has returned, <<>> before

inferVars == <<slotDict, sentence, inferred>>

NoValue == "None"

Surfaces == {"evro", "euro", "dollar"}
Canonicals == {"EUR", "USD"}
Normals == Surfaces \cup {"hello"}

SlotDicts == UNION {[S -> Canonicals] : S \in SUBSET Surfaces}

\* def infer(self, sentence): pass
DictionarySlot_infer(dict, tokens) == NoValue

InferInit ==
    /\ slotDict \in SlotDicts
    /\ sentence \in UNION {[1..k -> [normal : Normals]] : k \in 0..MaxTokens}
    /\ inferred = <<>>

Infer ==
    /\ inferred = <<>>
    /\ inferred' = <<DictionarySlot_infer(slotDict, sentence)>>
    /\ UNCHANGED <<slotDict, sentence>>

InferNext == Infer

Matching == {k \in DOMAIN sentence : sentence[k].normal \in DOMAIN slotDict}

FirstMatch == CHOOSE k \in Matching : \A j \in Matching : k <= j

\* C9: infer returns the canonical value the dictionary gives for the first
\* token whose normal form is one of its keys, and none only when no token
\* matches.
C9_FirstMatchWins ==
    inferred # <<>> =>
        inferred[1] = IF Matching = {} THEN NoValue
                      ELSE slotDict[sentence[FirstMatch].normal]

(***************************************************************************)
(* nlu.py: read_slots_from_tsv.  A line is a sequence of symbols: the      *)
(* separators the code looks at (tab, blank, dot, comma, the quote) and    *)
(* words, each standing for a run of other characters.                     *)
(***************************************************************************)
MaxLines == 4

VARIABLES
    slot_name,     \* <<>> for None, else <<name>>
    slot_class,
    info_question,
    slot_values,   \* the dictionary being filled: a set of <<key, value>>
    result_slots,
    tsvPc,         \* "reading", "raised" or "returned"
    linesRead,     \* number of lines read so far
    wideRow,       \* a value row read had more than two tab-separated fields
    wideStripped,  \* the same, counted on the row as strip() leaves it
    blocks         \* per slot block begun, the value rows read into it

tsvVars == <<slot_name, slot_class, info_question, slot_values, result_slots,
             tsvPc, linesRead, wideRow, wideStripped, blocks>>

Tab == "\t"
Blank == " "
Quotes == {"\"", "ldquo", "rdquo"}
Whitespace == {Tab, Blank}

\* str.strip()
RECURSIVE Strip(_)
Strip(s) ==
    IF s = <<>> THEN s
    ELSE IF Head(s) \in Whitespace THEN Strip(Tail(s))
    ELSE IF s[Len(s)] \in Whitespace THEN Strip(SubSeq(s, 1, Len(s) - 1))
    ELSE s

\* str.split(sep): the fields between the separators, empty ones included.
RECURSIVE SplitFrom(_, _, _)
SplitFrom(rest, sep, cur) ==
    IF rest = <<>> THEN <<cur>>
    ELSE IF Head(rest) = sep THEN <<cur>> \o SplitFrom(Tail(rest), sep, <<>>)
    ELSE SplitFrom(Tail(rest), sep, Append(cur, Head(rest)))

Split(s, sep) == SplitFrom(s, sep, <<>>)

\* str.split(): the runs of symbols between whitespace, none of them empty.
RECURSIVE SplitWsFrom(_, _)
SplitWsFrom(rest, cur) ==
    IF rest = <<>> THEN NonEmpty(cur)
    ELSE IF Head(rest) \in Whitespace
         THEN NonEmpty(cur) \o SplitWsFrom(Tail(rest), <<>>)
         ELSE SplitWsFrom(Tail(rest), Append(cur, Head(rest)))

SplitWs(s) == SplitWsFrom(s, <<>>)

\* syns.replace(', ', ',')
RECURSIVE ReplaceCommaBlank(_)
ReplaceCommaBlank(s) ==
    IF Len(s) < 2 THEN s
    ELSE IF s[1] = "," /\ s[2] = Blank
         THEN <<",">> \o ReplaceCommaBlank(SubSeq(s, 3, Len(s)))
         ELSE <<s[1]>> \o ReplaceCommaBlank(Tail(s))

\* .replace(...) of the two typographic quotes and of the plain one by ''
DropQuotes(s) == SelectSeq(s, LAMBDA ch : ch \notin Quotes)

Synonyms(field) == Split(DropQuotes(ReplaceCommaBlank(field)), ",")

\* The branch taken on a value row of n tab-separated fields
\* (RowKindLenient: without the final else).
RowKindLenient(n) == IF n = 1 THEN "name" ELSE "name_syns"

RowKind(n) ==
    CASE n = 1 -> "name"
      [] n = 2 -> "name_syns"
      [] OTHER -> "raise"

\* slot_values[key] = value
Put(dict, key, value) ==
    {e \in dict : e[1] # key} \cup {<<key, value>>}

RECURSIVE PutAll(_, _, _)
PutAll(dict, keys, value) ==
    IF keys = <<>> THEN dict
    ELSE PutAll(Put(dict, Head(keys), value), Tail(keys), value)

\* getattr(sys.modules[__name__], slot_class) followed by the call with
\* three arguments succeeds for the slot classes of the module only.
SlotClasses == {<<"Slot">>, <<"DictionarySlot">>, <<"ClassifierSlot">>}

NewSlot == [id |-> slot_name[1], class |-> slot_class,
            ask |-> info_question, dict |-> slot_values]

\* The lines a table is made of.
HeaderLines ==
    { <<"cur", ".", "DictionarySlot", Tab, "ask">>,
      <<"cur", ".", "Unknown", Tab, "ask">>,
      <<"cur", Tab, "ask">> }

ValueLines ==
    { <<"EUR">>,
      <<"EUR", Tab, "euro">>,
      <<"USD", Tab, "ldquo", "usd", "rdquo", ",", Blank, "\"", "buck", "\"">>,
      <<"EUR", Tab, "euro", Tab, "evro">>,
      <<"EUR", Tab, Tab, "euro">>,
      <<"EUR", Tab, "euro", Tab>>,
      <<Tab, "EUR", Tab, "euro">>,
      <<"USD", Tab, "euro", ",", "EUR">> }

BlankLines == { <<>>, <<Blank>> }

Lines == HeaderLines \cup ValueLines \cup BlankLines

TsvInit ==
    /\ slot_name = <<>>
    /\ slot_class = <<>>
    /\ info_question = <<>>
    /\ slot_values = {}
    /\ result_slots = <<>>
    /\ tsvPc = "reading"
    /\ linesRead = 0
    /\ wideRow = FALSE
    /\ wideStripped = FALSE
    /\ blocks = <<>>

\* slot_values = {} after a block has been stored
\* (FreshValuesShared: the dictionary is not renewed).
FreshValuesShared == slot_values

FreshValues == {}

Raise ==
    /\ tsvPc' = "raised"
    /\ UNCHANGED <<slot_name, slot_class, info_question, slot_values,
                   result_slots>>

\* One pass of the loop "for line in f" on the line raw.
ReadLine(raw) ==
    /\ tsvPc = "reading"
    /\ linesRead < MaxLines
    /\ linesRead' = linesRead + 1
    /\ LET line == Strip(raw)
           cells == Split(line, Tab)
           isValue == slot_name # <<>> /\ line # <<>>
       IN /\ wideRow' = (wideRow \/ (isValue /\ Len(Split(raw, Tab)) > 2))
          /\ wideStripped' = (wideStripped \/ (isValue /\ Len(cells) > 2))
          /\ blocks' =
                IF slot_name = <<>>
                THEN IF /\ Len(cells) = 2
                        /\ SplitWs(cells[1]) # <<>>
                        /\ Len(Split(SplitWs(cells[1])[1], ".")) = 2
                     THEN Append(blocks, <<>>)
                     ELSE blocks
                ELSE IF isValue /\ Len(cells) <= 2
                THEN [blocks EXCEPT ![Len(blocks)] =
                        Append(@, [name |-> cells[1],
                                   syns |-> IF Len(cells) = 1 THEN <<>>
                                            ELSE Synonyms(cells[2])])]
                ELSE blocks
          /\ IF slot_name = <<>>
             THEN IF /\ Len(cells) = 2
                     /\ SplitWs(cells[1]) # <<>>
                     /\ Len(Split(SplitWs(cells[1])[1], ".")) = 2
                  THEN LET parts == Split(SplitWs(cells[1])[1], ".")
                       IN /\ slot_name' = <<parts[1]>>
                          /\ slot_class' = parts[2]
                          /\ info_question' = Strip(cells[2])
                          /\ UNCHANGED <<slot_values, result_slots, tsvPc>>
                  ELSE Raise
             ELSE IF line # <<>>
             THEN IF RowKind(Len(cells)) = "raise"
                  THEN Raise
                  ELSE LET normal_name == cells[1]
                           syns == IF RowKind(Len(cells)) = "name" THEN <<>>
                                   ELSE Synonyms(cells[2])
                       IN /\ slot_values' =
                                PutAll(Put(slot_values, normal_name, normal_name),
                                       syns, normal_name)
                          /\ UNCHANGED <<slot_name, slot_class, info_question,
                                         result_slots, tsvPc>>
             ELSE IF slot_class \in SlotClasses
                  THEN /\ result_slots' = Append(result_slots, NewSlot)
                       /\ slot_name' = <<>>
                       /\ slot_values' = FreshValues
                       /\ UNCHANGED <<slot_class, info_question, tsvPc>>
                  ELSE Raise

\* The end of the file: the last block is closed and the list returned.
EndOfFile ==
    /\ tsvPc = "reading"
    /\ UNCHANGED <<linesRead, wideRow, wideStripped, blocks>>
    /\ IF slot_name # <<>>
       THEN IF slot_class \in SlotClasses
            THEN /\ result_slots' = Append(result_slots, NewSlot)
                 /\ tsvPc' = "returned"
                 /\ UNCHANGED <<slot_name, slot_class, info_question,
                                slot_values>>
            ELSE Raise
       ELSE /\ tsvPc' = "returned"
            /\ UNCHANGED <<slot_name, slot_class, info_question, slot_values,
                           result_slots>>

TsvNext ==
    \/ \E raw \in Lines : ReadLine(raw)
    \/ EndOfFile

\* C10 as stated: read_slots_from_tsv returns no slot list when a value row
\* of the table had more than two tab-separated fields.
C10_WideRowAborts == tsvPc = "returned" => ~wideRow

\* C10, amended: a value row that still has more than two tab-separated
\* fields once strip() has removed its leading and trailing whitespace
\* aborts the load at that row, wherever the row is.
C10_WideStrippedRowAborts == wideStripped => tsvPc = "raised"

\* A row of three fields is met after a well-formed block has been stored.
C10_Witness == wideStripped /\ Len(result_slots) > 0 /\ tsvPc = "raised"

\* The keys a value row gives: its canonical value and its synonyms.
RowKeys(r) == {r.name} \cup {r.syns[j] : j \in DOMAIN r.syns}

BlockKeys(rows) == UNION {RowKeys(rows[j]) : j \in DOMAIN rows}

LastRowWith(rows, key) ==
    CHOOSE j \in DOMAIN rows :
        /\ key \in RowKeys(rows[j])
        /\ \A i \in DOMAIN rows : key \in RowKeys(rows[i]) => i <= j

\* C11 as stated: in the dictionary of every slot returned, each canonical
\* value of the block maps to itself, each synonym of a row maps to the
\* canonical value of that row, and every key comes from the rows of the
\* block.
C11_RowsMapToTheirValue ==
    tsvPc = "returned" =>
        \A k \in DOMAIN result_slots :
            LET d == result_slots[k].dict
                rows == blocks[k]
            IN /\ \A j \in DOMAIN rows :
                     \A key \in RowKeys(rows[j]) : <<key, rows[j].name>> \in d
               /\ \A e \in d : e[1] \in BlockKeys(rows)

\* C11, amended: the dictionary of every slot stored maps each key of the
\* block (canonical value or synonym) to the canonical value of the last row
\* of the block that gives the key, and holds nothing else.
C11_LastRowWins ==
    \A k \in DOMAIN result_slots :
        result_slots[k].dict =
            { <<key, blocks[k][LastRowWith(blocks[k], key)].name>> :
                  key \in BlockKeys(blocks[k]) }

\* Two slots have been returned, the first of them from a row with a
\* canonical value and a synonym.
C11_Witness ==
    /\ tsvPc = "returned"
    /\ Len(result_slots) = 2
    /\ Len(blocks[1]) = 1
    /\ Cardinality(result_slots[1].dict) > 1

vars == <<routerVars, feedVars, routeVars, inferVars, tsvVars>>

\* C17: format_route is idempotent: called on a route it has already
\* normalised, it leaves the route as it is.
C17_FormatRouteIdempotent == [][routePc = "formatted" => route' = route]_vars

\* format_route has run twice on a route holding a bare string, a condition
\* object and, in a nested list, an action with relevant slots.
C17_Witness ==
    /\ routePc = "again"
    /\ rawRoute = << List(<< Str("a"),
                             Dict("action" :> Str("x") @@
                                  "relevant_slots" :>
                                      List(<<Str("a"), Str("b")>>)) >>),
                     Dict("c" :> Str("b")) >>

\* C13: user_client builds a session only for a chat id that has none, a
\* new one shared with no other chat, never replaces a session the map
\* holds, and chains the message on the session of its chat id.
C13_SessionKept ==
    [][Len(turns') > Len(turns) =>
          LET c == turns'[Len(turns')].chat
          IN /\ \A x \in Chats : humans[x] # 0 => humans'[x] = humans[x]
             /\ turns'[Len(turns')].dialog = humans'[c]
             /\ humans[c] = 0 => humans'[c] > dialogs
             /\ \A x \in Chats \ {c} : humans'[x] # humans'[c]]_vars

\* Two messages of one chat are chained on the session the map holds for it.
C13_Witness ==
    \E u \in Turns, t \in Turns :
        /\ u < t /\ turns[u].chat = turns[t].chat
        /\ SameDialog(u, t) /\ humans[turns[t].chat] = turns[t].dialog

(***************************************************************************)
(* The specifications: one per part of the program, the other parts idle.  *)
(***************************************************************************)
RouteIdle == rawRoute = <<>> /\ route = <<>> /\ routePc = "raw"

InferIdle == slotDict = <<>> /\ sentence = <<>> /\ inferred = <<>>

Init == RouterInit /\ FeedInit /\ RouteIdle /\ InferIdle /\ TsvInit
Next == RouterNext /\ UNCHANGED <<feedVars, routeVars, inferVars, tsvVars>>
Spec == Init /\ [][Next]_vars

NextFeed == FeedNext /\ UNCHANGED <<routerVars, routeVars, inferVars, tsvVars>>
SpecFeed == Init /\ [][NextFeed]_vars

InitRoute == RouterInit /\ FeedInit /\ RouteInit /\ InferIdle /\ TsvInit
NextRoute == RouteNext /\ UNCHANGED <<routerVars, feedVars, inferVars, tsvVars>>
SpecRoute == InitRoute /\ [][NextRoute]_vars

InitInfer == RouterInit /\ FeedInit /\ RouteIdle /\ InferInit /\ TsvInit
NextInfer == InferNext /\ UNCHANGED <<routerVars, feedVars, routeVars, tsvVars>>
SpecInfer == InitInfer /\ [][NextInfer]_vars

NextTsv == TsvNext /\ UNCHANGED <<routerVars, feedVars, routeVars, inferVars>>
SpecTsv == Init /\ [][NextTsv]_vars


=============================================================================
